---- MODULE Spec2Model ----
(***************************************************************************)
(* Model of the skills_development generation / storage / similarity      *)
(* subsystem (backend/microservices/skills_development/ai_logic).         *)
(*                                                                         *)
(*  - run_daily_articles_with_evaluation: the batch loop over topics      *)
(*  - build_graph_with_evaluation: the per-topic node graph               *)
(*      search -> generate -> vocab -> evaluate -> {regenerate|store}     *)
(*  - ArticleEvaluator: two judge calls, parse fallback, overall score    *)
(*  - StorageService.save_article: vector write, graph write, similarity  *)
(*  - EnhancedRecommendationService.update_similarities_for_new_articles  *)
(*                                                                         *)
(* Scores are integers (0..100); similarities are integers in hundredths. *)
(***************************************************************************)
EXTENDS Integers, Sequences, FiniteSets, TLC

\* ------------------------------------------------------------------------
\* Bounds
\* ------------------------------------------------------------------------
MaxItems == 2
MaxTopics == 2
MaxRegen == 1

\* ------------------------------------------------------------------------
\* Program constants
\* ------------------------------------------------------------------------
DuplicateThreshold == 85
SimilarityThreshold == 70
DefaultScore == 50
PerformanceWeight == 60
AlignmentWeight == 40

\* ------------------------------------------------------------------------
\* Input domains
\* ------------------------------------------------------------------------
TopicNames == {"A", "B", "C"}
JudgeScores == {50, 100}
QualityThresholds == {70}
NoAvg == -1
NoId == 0
EmptyText == 0
EmptySummary == -1

\* Cosine similarity (in hundredths) between the embeddings of two topics'
\* texts.  A-B are near-duplicates (exactly at the duplicate threshold),
\* A-C sit exactly at the edge threshold, B-C are unrelated.
TopicSim(t, u) ==
  IF t = u THEN 100
  ELSE IF {t, u} = {"A", "B"} THEN 85
  ELSE IF {t, u} = {"A", "C"} THEN 70
  ELSE 60

VARIABLES
  chroma,      \* vector store: set of [id, topic]
  articles,    \* graph store: ids having an Article node
  similar,     \* graph store: SIMILAR_TO relationships [a1, a2, score]
  nextId,      \* source of fresh unique ids (uuid4): the least id not in a store
  topics,      \* argument of the running batch
  cfg,         \* [min_quality_score, max_regenerations] of the running batch
  idx,         \* position of the for loop (1-based)
  results,     \* the list being returned
  generated,   \* counter
  skipped,     \* counter
  pc,          \* position of the batch / node about to run
  state,       \* TranslatorArticleStateWithEval of the current topic
  h,           \* observation of the current topic's run
  log,         \* observation: one entry per topic the loop has finished
  upd,         \* observation of the last update_similarities call
  ev,          \* observation of the last ArticleEvaluator.evaluate_article call
  reads,       \* graph store: READ relationships <<user, article id>>
  ratings,     \* graph store: RATED relationships [user, id, score]
  rec,         \* observation of the last get_user_recommendations call
  div,         \* observation of the last ranking of a scored candidate list
  affinity,    \* graph store: INTERESTED_IN relationships [user, topic, score]
  bookmarks,   \* graph store: BOOKMARKED relationships <<user, article id>>
  act,         \* the record_interaction request being answered
  rq,          \* the run_query call in progress
  procs        \* the save_article calls running concurrently

vars == <<chroma, articles, similar, nextId, topics, cfg, idx, results,
          generated, skipped, pc, state, h, log, upd, ev, reads, ratings,
          rec, div, affinity, bookmarks, act, rq, procs>>

\* what the generation and storage operations never touch
\* INTERESTED_IN and BOOKMARKED relationships, the interaction request being
\* answered, the run_query call and the concurrent save_article calls
intVars == <<affinity, bookmarks, act, rq, procs>>

auxVars == <<ev, reads, ratings, rec, div, intVars>>

storeVars == <<chroma, articles, similar, nextId>>
batchVars == <<topics, cfg, idx, results, generated, skipped>>

\* ------------------------------------------------------------------------
\* Records
\* ------------------------------------------------------------------------
NoEvaluation == [present |-> FALSE, overall_score |-> 0, shape |-> "ok"]

InitialState(topic) ==
  [topic |-> topic, search_results |-> "", article |-> EmptyText,
   vocab_summary |-> EmptySummary, article_id |-> NoId,
   evaluation |-> NoEvaluation, regeneration_count |-> 0,
   quality_passed |-> FALSE]

NoH == [regens |-> 0, stores |-> 0, called |-> FALSE, allLow |-> TRUE,
        from |-> "none", saved |-> "none", near |-> FALSE, failed |-> {}]

NoUpd == [status |-> "none", ids |-> {}, count |-> 0, created |-> 0,
          changed |-> FALSE, repeat |-> FALSE]

NoEv == [status |-> "none"]

NoRec == [path |-> "none"]

NoDiv == [status |-> "none"]

NoAct == [status |-> "none"]

NoQuery == [status |-> "none"]

NoProcs == <<>>

Init ==
  /\ chroma = {}
  /\ articles = {}
  /\ similar = {}
  /\ nextId = 1
  /\ topics = <<>>
  /\ cfg = [min_quality_score |-> 70, max_regenerations |-> 2]
  /\ idx = 1
  /\ results = <<>>
  /\ generated = 0
  /\ skipped = 0
  /\ pc = "idle"
  /\ state = InitialState("A")
  /\ h = NoH
  /\ log = <<>>
  /\ upd = NoUpd
  /\ ev = NoEv
  /\ reads = {}
  /\ ratings = {}
  /\ rec = NoRec
  /\ div = NoDiv
  /\ affinity = {}
  /\ bookmarks = {}
  /\ act = NoAct
  /\ rq = NoQuery
  /\ procs = NoProcs

\* ------------------------------------------------------------------------
\* Vector store (ChromaDB collection) as seen by the callers
\* ------------------------------------------------------------------------
Ids(C) == {a.id : a \in C}

TopicOfId(C, id) == (CHOOSE a \in C : a.id = id).topic

\* np.dot of two normalised rows of the collection
Cosine(C, i, j) == TopicSim(TopicOfId(C, i), TopicOfId(C, j))

\* data["ids"]: the collection lists its documents in insertion order
RECURSIVE AllIds(_)
AllIds(S) ==
  IF S = {} THEN <<>>
  ELSE LET m == CHOOSE x \in S : \A y \in S : x <= y
       IN <<m>> \o AllIds(S \ {m})

\* chroma_manager.search_similar(query=topic, n_results=1)[0]["similarity"]
NearestSimilarity(C, topic) ==
  LET sims == {TopicSim(topic, a.topic) : a \in C}
  IN CHOOSE s \in sims : \A r \in sims : r <= s

\* variant of is_topic_duplicate with a strict comparison (sim > threshold)
is_topic_duplicate_strict(C, topic, threshold, queryRaises) ==
  IF queryRaises THEN FALSE
  ELSE IF C = {} THEN FALSE
  ELSE NearestSimilarity(C, topic) > threshold

\* StorageService.is_topic_duplicate; queryRaises: search_similar raised
is_topic_duplicate(C, topic, threshold, queryRaises) ==
  IF queryRaises THEN FALSE
  ELSE IF C = {} THEN FALSE
  ELSE NearestSimilarity(C, topic) >= threshold

\* storage_node.is_topic_in_db (threshold defaults to 0.85)
is_topic_in_db(C, topic, queryRaises) ==
  is_topic_duplicate(C, topic, DuplicateThreshold, queryRaises)

\* ------------------------------------------------------------------------
\* Similarity graph maintenance
\* ------------------------------------------------------------------------
\* variant of _create_similarity_edge whose SET adds to the stored score
create_similarity_edge_add(E, A, a1, a2, score) ==
  IF a1 \notin A \/ a2 \notin A THEN E
  ELSE IF \E e \in E : e.a1 = a1 /\ e.a2 = a2
       THEN {IF e.a1 = a1 /\ e.a2 = a2 THEN [e EXCEPT !.score = @ + score]
             ELSE e : e \in E}
       ELSE E \cup {[a1 |-> a1, a2 |-> a2, score |-> score]}

\* MATCH (a1) MATCH (a2) MERGE (a1)-[s:SIMILAR_TO]->(a2) SET s.score = $score
create_similarity_edge(E, A, a1, a2, score) ==
  IF a1 \notin A \/ a2 \notin A THEN E
  ELSE IF \E e \in E : e.a1 = a1 /\ e.a2 = a2
       THEN {IF e.a1 = a1 /\ e.a2 = a2 THEN [e EXCEPT !.score = score] ELSE e
               : e \in E}
       ELSE E \cup {[a1 |-> a1, a2 |-> a2, score |-> score]}

\* the other_ids of the inner loop that pass both tests, in loop order
Targets(C, new) ==
  SelectSeq(AllIds(Ids(C)),
            LAMBDA o : o # new /\ Cosine(C, new, o) >= SimilarityThreshold)

\* every (new_id, other_id) for which _create_similarity_edge is called
RECURSIVE Merges(_, _)
Merges(C, newSeq) ==
  IF newSeq = <<>> THEN <<>>
  ELSE LET new == Head(newSeq)
           t == IF new \in Ids(C) THEN Targets(C, new) ELSE <<>>
       IN [i \in 1..Len(t) |-> <<new, t[i]>>] \o Merges(C, Tail(newSeq))

RECURSIVE ApplyMerges(_, _, _, _, _)
ApplyMerges(C, A, E, ms, k) ==
  IF k = 0 THEN E
  ELSE LET prev == ApplyMerges(C, A, E, ms, k - 1)
       IN create_similarity_edge(prev, A, ms[k][1], ms[k][2],
                                 Cosine(C, ms[k][1], ms[k][2]))

\* EnhancedRecommendationService.update_similarities_for_new_articles.
\* failAt = -1: collection.get raises; failAt = k >= 1: the k-th run_query
\* raises (the merges before it are already committed); otherwise it returns.
update_similarities_for_new_articles(C, A, E, newSeq, failAt) ==
  LET ms == Merges(C, newSeq)
      n == Len(ms)
  IN IF newSeq = <<>>
       THEN [similar |-> E, count |-> 0, raised |-> FALSE]
     ELSE IF failAt = -1
       THEN [similar |-> E, count |-> 0, raised |-> TRUE]
     ELSE IF failAt \in 1..n
       THEN [similar |-> ApplyMerges(C, A, E, ms, failAt - 1),
             count |-> failAt - 1, raised |-> TRUE]
     ELSE [similar |-> ApplyMerges(C, A, E, ms, n), count |-> n,
           raised |-> FALSE]

\* ------------------------------------------------------------------------
\* StorageService.save_article
\*   outcome "chroma": chroma_manager.add_article raises
\*           "neo4j":  neo4j.add_article raises after the vector write
\*           "ok":     both writes succeed; the similarity update then runs
\*                     with failAt and its failure is only logged
\* ------------------------------------------------------------------------
save_article(C, A, E, id, topic, outcome, failAt) ==
  LET C1 == C \cup {[id |-> id, topic |-> topic]}
      A1 == A \cup {id}
      u == update_similarities_for_new_articles(C1, A1, E, <<id>>, failAt)
  IN IF outcome = "chroma"
       THEN [chroma |-> C, articles |-> A, similar |-> E, raised |-> TRUE,
             id |-> NoId, count |-> 0, updated |-> "none"]
     ELSE IF outcome = "neo4j"
       THEN [chroma |-> C1, articles |-> A, similar |-> E, raised |-> TRUE,
             id |-> NoId, count |-> 0, updated |-> "none"]
     ELSE [chroma |-> C1, articles |-> A1, similar |-> u.similar,
           raised |-> FALSE, id |-> id, count |-> u.count,
           updated |-> IF u.raised THEN "raised" ELSE "returned"]

\* storage_node.save_article_to_db: the id, or None when save_article raised
save_article_to_db(C, A, E, id, topic, outcome, failAt) ==
  LET r == save_article(C, A, E, id, topic, outcome, failAt)
  IN [r EXCEPT !.id = IF r.raised THEN NoId ELSE r.id]

\* ------------------------------------------------------------------------
\* ArticleEvaluator
\* ------------------------------------------------------------------------
\* What one call_judge_llm can do:
\*   "raise"    the call raises (transport error, empty completion)
\*   "nonjson"  the text is not JSON (json.JSONDecodeError)
\*   "unusable" the text is JSON but not an object with a numeric
\*              average_score (a list, "average_score": "n/a", ...)
\*   "json"     an object; avg is its average_score (NoAvg: key missing);
\*              shape "bad": some criterion entry is not {"score": number,
\*              ...} with lists of strings (e.g. "score": null)
Reply(kind, avg, shape) == [kind |-> kind, avg |-> avg, shape |-> shape]

JudgeReplies ==
  {Reply("raise", NoAvg, "ok"), Reply("nonjson", NoAvg, "ok"),
   Reply("unusable", NoAvg, "ok")}
  \cup {Reply("json", a, sh) : a \in JudgeScores \cup {NoAvg},
                               sh \in {"ok", "bad"}}

\* variant of evaluate_task_performance without the JSONDecodeError handler
evaluate_task_performance_uncaught(reply) ==
  IF reply.kind \in {"raise", "nonjson"}
    THEN [raised |-> TRUE, dict |-> FALSE, avg |-> NoAvg, shape |-> "ok"]
  ELSE IF reply.kind = "unusable"
    THEN [raised |-> FALSE, dict |-> FALSE, avg |-> NoAvg, shape |-> "ok"]
  ELSE [raised |-> FALSE, dict |-> TRUE, avg |-> reply.avg,
        shape |-> reply.shape]

\* ArticleEvaluator.evaluate_task_performance: only JSONDecodeError is caught
evaluate_task_performance(reply) ==
  IF reply.kind = "raise"
    THEN [raised |-> TRUE, dict |-> FALSE, avg |-> NoAvg, shape |-> "ok"]
  ELSE IF reply.kind = "nonjson"
    THEN [raised |-> FALSE, dict |-> TRUE, avg |-> DefaultScore, shape |-> "ok"]
  ELSE IF reply.kind = "unusable"
    THEN [raised |-> FALSE, dict |-> FALSE, avg |-> NoAvg, shape |-> "ok"]
  ELSE [raised |-> FALSE, dict |-> TRUE, avg |-> reply.avg,
        shape |-> reply.shape]

\* ArticleEvaluator.evaluate_alignment: the same handling, second judge call
evaluate_alignment(reply) ==
  IF reply.kind = "raise"
    THEN [raised |-> TRUE, dict |-> FALSE, avg |-> NoAvg, shape |-> "ok"]
  ELSE IF reply.kind = "nonjson"
    THEN [raised |-> FALSE, dict |-> TRUE, avg |-> DefaultScore, shape |-> "ok"]
  ELSE IF reply.kind = "unusable"
    THEN [raised |-> FALSE, dict |-> FALSE, avg |-> NoAvg, shape |-> "ok"]
  ELSE [raised |-> FALSE, dict |-> TRUE, avg |-> reply.avg,
        shape |-> reply.shape]

\* ArticleEvaluator._calculate_overall_score (weights 0.6 / 0.4)
calculate_overall_score(performance_eval, alignment_eval) ==
  LET performance_score == IF performance_eval.avg = NoAvg THEN DefaultScore
                           ELSE performance_eval.avg
      alignment_score == IF alignment_eval.avg = NoAvg THEN DefaultScore
                         ELSE alignment_eval.avg
  IN (performance_score * PerformanceWeight
        + alignment_score * AlignmentWeight) \div 100

\* ArticleEvaluator.evaluate_article: [raised, evaluation, calls]
evaluate_article(r1, r2) ==
  LET performance_eval == evaluate_task_performance(r1)
      alignment_eval == evaluate_alignment(r2)
  IN IF performance_eval.raised
       THEN [raised |-> TRUE, evaluation |-> NoEvaluation, calls |-> 1]
     ELSE IF alignment_eval.raised
               \/ ~performance_eval.dict \/ ~alignment_eval.dict
       THEN [raised |-> TRUE, evaluation |-> NoEvaluation, calls |-> 2]
     ELSE [raised |-> FALSE,
           evaluation |->
             [present |-> TRUE,
              overall_score |->
                calculate_overall_score(performance_eval, alignment_eval),
              shape |-> IF performance_eval.shape = "bad"
                           \/ alignment_eval.shape = "bad"
                        THEN "bad" ELSE "ok"],
           calls |-> 2]

\* ------------------------------------------------------------------------
\* Nodes of build_graph_with_evaluation
\* ------------------------------------------------------------------------
\* search_node.search_topic catches its own failure and returns a message
search_topic(ok) == IF ok THEN "context" ELSE "Search failed for topic"

node_search(st, ok) == [st EXCEPT !.search_results = search_topic(ok)]

\* a text is identified by the attempt that produced it: 1 for node_generate,
\* 1 + regeneration_count for a regeneration
node_generate(st, ok) ==
  [st EXCEPT !.article = IF ok THEN 1 ELSE EmptyText]

\* a summary is identified by the text it was derived from
node_vocab(st, ok) ==
  [st EXCEPT !.vocab_summary = IF ok THEN st.article ELSE EmptySummary]

node_evaluate(st, r1, r2, min_quality_score) ==
  LET e == evaluate_article(r1, r2)
  IN IF e.raised
       THEN [st EXCEPT !.quality_passed = TRUE, !.evaluation = NoEvaluation]
     ELSE [st EXCEPT !.evaluation = e.evaluation,
                     !.quality_passed =
                       (e.evaluation.overall_score >= min_quality_score)]

should_regenerate(st, max_regenerations) ==
  IF st.quality_passed THEN "store"
  ELSE IF st.regeneration_count < max_regenerations THEN "regenerate"
  ELSE "store"

\* the feedback extraction of node_regenerate runs outside its try block:
\* comparing a non-numeric score with 70 or joining non-strings raises
FeedbackRaises(evaluation) == evaluation.present /\ evaluation.shape = "bad"

\* node_regenerate when the feedback extraction passes; llmOk: the import and
\* call_llm succeed; vocabOk: generate_vocab_summary succeeds after them
node_regenerate(st, llmOk, vocabOk) ==
  LET s1 == [st EXCEPT !.regeneration_count = st.regeneration_count + 1]
      text == s1.regeneration_count + 1
  IN IF ~llmOk THEN s1
     ELSE IF ~vocabOk THEN [s1 EXCEPT !.article = text]
     ELSE [s1 EXCEPT !.article = text, !.vocab_summary = text]

node_store(st, article_id) ==
  IF article_id # NoId THEN [st EXCEPT !.article_id = article_id] ELSE st

\* ------------------------------------------------------------------------
\* run_daily_articles_with_evaluation
\* ------------------------------------------------------------------------
TopicSeqs == UNION {[1..n -> TopicNames] : n \in 0..MaxTopics}

\* where an update can fail: -1 (collection.get), 0 (nowhere), k (k-th merge)
FailPoints(C, newSeq) == -1..Len(Merges(C, newSeq))

\* the same for the update that save_article runs for its new id
SaveFailPoints(C, id, topic, outcome) ==
  IF outcome = "ok"
    THEN FailPoints(C \cup {[id |-> id, topic |-> topic]}, <<id>>)
    ELSE {0}

\* variant of after_topic in which an exception out of invoke is not caught
after_topic_uncaught(how) == IF how = "error" THEN "raised" ELSE "loop"

\* where the for loop goes once a topic is finished: a stored topic, a failed
\* store (else branch) and an exception out of invoke (except branch) all
\* fall through to the next iteration
after_topic(how) == "loop"

LogEntry(how) ==
  [topic |-> topics[idx], how |-> how, near |-> h.near, called |-> h.called]

\* the call: `if not topics: raise ValueError`, then the counters are set up
StartBatch(ts, q, n) ==
  /\ UNCHANGED auxVars
  /\ pc \in {"idle", "returned", "raised"}
  /\ nextId + Len(ts) - 1 <= MaxItems
  /\ topics' = ts
  /\ cfg' = [min_quality_score |-> q, max_regenerations |-> n]
  /\ idx' = 1
  /\ results' = <<>>
  /\ generated' = 0
  /\ skipped' = 0
  /\ pc' = IF ts = <<>> THEN "raised" ELSE "loop"
  /\ state' = InitialState("A")
  /\ h' = NoH
  /\ log' = <<>>
  /\ UNCHANGED <<storeVars, upd>>

\* head of the loop body: the duplicate check, then `continue` or the
\* initial state of the topic's graph run
CheckDuplicate(queryRaises) ==
  /\ UNCHANGED auxVars
  /\ pc = "loop"
  /\ idx <= Len(topics)
  /\ LET topic == topics[idx]
         near == /\ ~queryRaises
                 /\ \E a \in chroma :
                      TopicSim(topic, a.topic) >= DuplicateThreshold
     IN IF is_topic_in_db(chroma, topic, queryRaises)
          THEN /\ skipped' = skipped + 1
               /\ idx' = idx + 1
               /\ pc' = "loop"
               /\ log' = Append(log, [LogEntry("duplicate")
                                        EXCEPT !.near = near])
               /\ h' = NoH
               /\ UNCHANGED state
          ELSE /\ state' = InitialState(topic)
               /\ pc' = "search"
               /\ h' = [NoH EXCEPT !.near = near]
               /\ UNCHANGED <<skipped, idx, log>>
  /\ UNCHANGED <<storeVars, topics, cfg, results, generated, upd>>

NodeSearch(ok) ==
  /\ UNCHANGED auxVars
  /\ pc = "search"
  /\ state' = node_search(state, ok)
  /\ pc' = "generate"
  /\ h' = [h EXCEPT !.called = TRUE, !.from = "search",
                    !.failed = IF ok THEN @ ELSE @ \cup {"search"}]
  /\ UNCHANGED <<storeVars, batchVars, log, upd>>

NodeGenerate(ok) ==
  /\ UNCHANGED auxVars
  /\ pc = "generate"
  /\ state' = node_generate(state, ok)
  /\ pc' = "vocab"
  /\ h' = [h EXCEPT !.called = TRUE, !.from = "generate",
                    !.failed = IF ok THEN @ ELSE @ \cup {"generate"}]
  /\ UNCHANGED <<storeVars, batchVars, log, upd>>

NodeVocab(ok) ==
  /\ UNCHANGED auxVars
  /\ pc = "vocab"
  /\ state' = node_vocab(state, ok)
  /\ pc' = "evaluate"
  /\ h' = [h EXCEPT !.called = TRUE, !.from = "vocab",
                    !.failed = IF ok THEN @ ELSE @ \cup {"vocab"}]
  /\ UNCHANGED <<storeVars, batchVars, log, upd>>

\* node_evaluate followed by the conditional edge should_regenerate
NodeEvaluate(r1, r2) ==
  /\ UNCHANGED auxVars
  /\ pc = "evaluate"
  /\ state' = node_evaluate(state, r1, r2, cfg.min_quality_score)
  /\ pc' = should_regenerate(state', cfg.max_regenerations)
  /\ h' = [h EXCEPT !.called = TRUE,
                    !.from = "evaluate",
                    !.allLow = /\ @
                               /\ state'.evaluation.present
                               /\ state'.evaluation.overall_score
                                    < cfg.min_quality_score]
  /\ UNCHANGED <<storeVars, batchVars, log, upd>>

\* node_regenerate, then the edge back to evaluate; when the feedback
\* extraction raises, the exception leaves compiled_graph.invoke
NodeRegenerate(llmOk, vocabOk) ==
  /\ UNCHANGED auxVars
  /\ pc = "regenerate"
  /\ IF FeedbackRaises(state.evaluation)
       THEN /\ state' = [state EXCEPT !.regeneration_count = @ + 1]
            /\ pc' = "escaped"
            /\ h' = [h EXCEPT !.regens = @ + 1, !.from = "regenerate"]
       ELSE /\ state' = node_regenerate(state, llmOk, vocabOk)
            /\ pc' = "evaluate"
            /\ h' = [h EXCEPT !.regens = @ + 1, !.from = "regenerate",
                              !.called = TRUE]
  /\ UNCHANGED <<storeVars, batchVars, log, upd>>

\* node_store: save_article_to_db with a fresh uuid; invoke then returns
NodeStore(outcome, failAt) ==
  /\ UNCHANGED auxVars
  /\ pc = "store"
  /\ LET r == save_article_to_db(chroma, articles, similar, nextId,
                                 state.topic, outcome, failAt)
     IN /\ chroma' = r.chroma
        /\ articles' = r.articles
        /\ similar' = r.similar
        /\ state' = node_store(state, r.id)
        /\ h' = [h EXCEPT !.called = TRUE, !.stores = @ + 1,
                          !.from = "store",
                          !.saved = IF r.raised THEN "failed" ELSE "ok"]
  /\ nextId' = IF outcome = "chroma" THEN nextId ELSE nextId + 1
  /\ pc' = "invoked"
  /\ UNCHANGED <<batchVars, log, upd>>

\* compiled_graph.invoke(initial_state) from the entry point up to the store
\* node, for a run in which the search and generation calls succeed and every
\* judge call gets the same reply: search -> generate -> vocab -> evaluate,
\* then the conditional edge, regenerate -> evaluate while it says so
RECURSIVE EvaluateLoop(_, _, _, _)
EvaluateLoop(st, reply, min_quality_score, max_regenerations) ==
  LET s1 == node_evaluate(st, reply, reply, min_quality_score)
  IN IF should_regenerate(s1, max_regenerations) = "store"
       THEN [escaped |-> FALSE, st |-> s1]
     ELSE IF FeedbackRaises(s1.evaluation)
       THEN [escaped |-> TRUE,
             st |-> [s1 EXCEPT !.regeneration_count = @ + 1]]
     ELSE EvaluateLoop(node_regenerate(s1, TRUE, TRUE), reply,
                       min_quality_score, max_regenerations)

invoke_to_store(st, reply, min_quality_score, max_regenerations) ==
  EvaluateLoop(node_vocab(node_generate(node_search(st, TRUE), TRUE), TRUE),
               reply, min_quality_score, max_regenerations)

\* the whole of compiled_graph.invoke for the current topic of a batch
Invoke(reply, outcome, failAt) ==
  /\ UNCHANGED auxVars
  /\ pc = "search"
  /\ LET run == invoke_to_store(state, reply, cfg.min_quality_score,
                                cfg.max_regenerations)
         r == save_article_to_db(chroma, articles, similar, nextId,
                                 state.topic, outcome, failAt)
     IN IF run.escaped
          THEN /\ state' = run.st
               /\ pc' = "escaped"
               /\ h' = [h EXCEPT !.called = TRUE, !.from = "regenerate",
                                 !.regens = run.st.regeneration_count]
               /\ UNCHANGED storeVars
          ELSE /\ state' = node_store(run.st, r.id)
               /\ pc' = "invoked"
               /\ h' = [h EXCEPT !.called = TRUE, !.from = "store",
                                 !.regens = run.st.regeneration_count,
                                 !.stores = 1,
                                 !.saved = IF r.raised THEN "failed" ELSE "ok"]
               /\ chroma' = r.chroma
               /\ articles' = r.articles
               /\ similar' = r.similar
               /\ nextId' = IF outcome = "chroma" THEN nextId ELSE nextId + 1
  /\ UNCHANGED <<batchVars, log, upd>>

\* invoke returned final_state: append the result or count the topic skipped
TopicDone ==
  /\ UNCHANGED auxVars
  /\ pc = "invoked"
  /\ IF state.article_id # NoId
       THEN /\ results' =
                 Append(results,
                        [topic |-> topics[idx], article |-> state.article,
                         vocab_summary |-> state.vocab_summary,
                         article_id |-> state.article_id,
                         evaluation |-> state.evaluation,
                         regeneration_count |-> state.regeneration_count])
            /\ generated' = generated + 1
            /\ log' = Append(log, LogEntry("stored"))
            /\ pc' = after_topic("stored")
            /\ UNCHANGED skipped
       ELSE /\ skipped' = skipped + 1
            /\ log' = Append(log, LogEntry("failed"))
            /\ pc' = after_topic("failed")
            /\ UNCHANGED <<results, generated>>
  /\ idx' = idx + 1
  /\ h' = NoH
  /\ state' = InitialState("A")
  /\ UNCHANGED <<storeVars, topics, cfg, upd>>

\* invoke raised: the except branch of the loop body
TopicError ==
  /\ UNCHANGED auxVars
  /\ pc = "escaped"
  /\ skipped' = skipped + 1
  /\ log' = Append(log, LogEntry("error"))
  /\ pc' = after_topic("error")
  /\ idx' = idx + 1
  /\ h' = NoH
  /\ state' = InitialState("A")
  /\ UNCHANGED <<storeVars, topics, cfg, results, generated, upd>>

\* the loop is exhausted: return results
ReturnResults ==
  /\ UNCHANGED auxVars
  /\ pc = "loop"
  /\ idx > Len(topics)
  /\ pc' = "returned"
  /\ UNCHANGED <<storeVars, batchVars, state, h, log, upd>>

\* ------------------------------------------------------------------------
\* The storage and similarity services called directly
\* ------------------------------------------------------------------------
\* relationships (ordered pairs) present in E2 and absent from E1
Links(E) == {<<e.a1, e.a2>> : e \in E}

Created(E1, E2) == Cardinality(Links(E2) \ Links(E1))

\* StorageService.save_article(topic, ...) with a fresh uuid
Save(topic, outcome, failAt) ==
  /\ UNCHANGED auxVars
  /\ pc = "idle"
  /\ nextId <= MaxItems
  /\ LET r == save_article(chroma, articles, similar, nextId, topic, outcome,
                           failAt)
     IN /\ chroma' = r.chroma
        /\ articles' = r.articles
        /\ similar' = r.similar
        /\ upd' = IF outcome = "chroma" THEN upd
                  ELSE IF outcome = "neo4j" THEN NoUpd
                  ELSE [status |-> r.updated, ids |-> {nextId},
                        count |-> r.count,
                        created |-> Created(similar, r.similar),
                        changed |-> (r.similar # similar),
                        repeat |-> FALSE]
  /\ nextId' = IF outcome = "chroma" THEN nextId ELSE nextId + 1
  /\ UNCHANGED <<batchVars, pc, state, h, log>>

\* the argument lists of a direct call: [], [a] and [a, b] over the ids
\* handed out so far and one id (nextId) that the collection does not hold
NewIdLists == {{}} \cup {{a, b} : a \in 1..nextId, b \in 1..nextId}

\* update_similarities_for_new_articles(new_article_ids), ids ascending
UpdateSimilarities(ids, failAt) ==
  /\ UNCHANGED auxVars
  /\ pc = "idle"
  /\ ids \in NewIdLists
  /\ LET u == update_similarities_for_new_articles(chroma, articles, similar,
                                                   AllIds(ids), failAt)
     IN /\ similar' = u.similar
        /\ upd' = [status |-> IF u.raised THEN "raised" ELSE "returned",
                   ids |-> ids, count |-> u.count,
                   created |-> Created(similar, u.similar),
                   changed |-> (u.similar # similar),
                   repeat |-> upd.status = "returned" /\ upd.ids = ids]
  /\ UNCHANGED <<chroma, articles, nextId, batchVars, pc, state, h, log>>

\* the batch entry point, topic by topic
Next ==
  \/ \E ts \in TopicSeqs, q \in QualityThresholds, n \in 0..MaxRegen :
       StartBatch(ts, q, n)
  \/ \E queryRaises \in BOOLEAN : CheckDuplicate(queryRaises)
  \/ \E reply \in JudgeReplies, outcome \in {"chroma", "neo4j", "ok"} :
       \E failAt \in SaveFailPoints(chroma, nextId, state.topic, outcome) :
         Invoke(reply, outcome, failAt)
  \/ TopicDone
  \/ TopicError
  \/ ReturnResults

Spec == Init /\ [][Next]_vars

\* one topic's run of the graph, node by node: the state of a batch of one
\* topic whose duplicate check has just passed on empty stores
InitLoop ==
  /\ chroma = {}
  /\ articles = {}
  /\ similar = {}
  /\ nextId = 1
  /\ \E t \in TopicNames :
       /\ topics = <<t>>
       /\ state = InitialState(t)
  /\ \E q \in QualityThresholds, n \in 0..MaxRegen :
       cfg = [min_quality_score |-> q, max_regenerations |-> n]
  /\ idx = 1
  /\ results = <<>>
  /\ generated = 0
  /\ skipped = 0
  /\ pc = "search"
  /\ h = NoH
  /\ log = <<>>
  /\ upd = NoUpd
  /\ ev = NoEv
  /\ reads = {}
  /\ ratings = {}
  /\ rec = NoRec
  /\ div = NoDiv
  /\ affinity = {}
  /\ bookmarks = {}
  /\ act = NoAct
  /\ rq = NoQuery
  /\ procs = NoProcs

NextLoop ==
  \/ \E ok \in BOOLEAN : NodeSearch(ok)
  \/ \E ok \in BOOLEAN : NodeGenerate(ok)
  \/ \E ok \in BOOLEAN : NodeVocab(ok)
  \/ \E r1 \in JudgeReplies, r2 \in JudgeReplies : NodeEvaluate(r1, r2)
  \/ \E llmOk \in BOOLEAN, vocabOk \in BOOLEAN : NodeRegenerate(llmOk, vocabOk)
  \/ \E outcome \in {"chroma", "neo4j", "ok"} :
       \E failAt \in SaveFailPoints(chroma, nextId, state.topic, outcome) :
         NodeStore(outcome, failAt)
  \/ TopicDone
  \/ TopicError
  \/ ReturnResults

SpecLoop == InitLoop /\ [][NextLoop]_vars

\* the two services called directly on the stores
NextSim ==
  \/ \E topic \in TopicNames, outcome \in {"chroma", "neo4j", "ok"} :
       \E failAt \in SaveFailPoints(chroma, nextId, topic, outcome) :
         Save(topic, outcome, failAt)
  \/ \E ids \in NewIdLists :
       \E failAt \in FailPoints(chroma, AllIds(ids)) :
         UpdateSimilarities(ids, failAt)

SpecSim == Init /\ [][NextSim]_vars

\* ------------------------------------------------------------------------
\* Claims about one topic's run of the graph (SpecLoop)
\* ------------------------------------------------------------------------
\* the run of the current topic is over: invoke returned or raised
RunEnded == pc \in {"invoked", "escaped"}

\* C1: for any max_regenerations = N and any judge results, a topic's run
\* takes at most N REGENERATE transitions and then reaches STORE; when every
\* evaluation scored below the threshold and the store succeeded, the final
\* state has regeneration_count = N and a non-null id.
C1_RegenerationBoundReachesStore ==
  /\ h.regens <= cfg.max_regenerations
  /\ RunEnded => h.stores = 1
  /\ (pc = "invoked" /\ h.allLow /\ h.saved = "ok")
       => /\ state.regeneration_count = cfg.max_regenerations
          /\ state.article_id # NoId

\* the run ended inside node_regenerate without ever entering node_store
C1_RunEndsWithoutStore ==
  /\ pc = "escaped"
  /\ h.stores = 0
  /\ h.allLow
  /\ state.regeneration_count <= cfg.max_regenerations

\* the evaluation carries a score that meets the threshold
ScorePasses(st) ==
  st.evaluation.present
    /\ st.evaluation.overall_score >= cfg.min_quality_score

\* C2: after each EVALUATE step the next step is STORE exactly when
\* overall_score >= quality_threshold or regeneration_count >=
\* max_regenerations, and REGENERATE otherwise; every REGENERATE step is
\* followed by an EVALUATE step.
C2_RoutingAfterEvaluate ==
  [][/\ pc = "evaluate" =>
          /\ pc' \in {"store", "regenerate"}
          /\ pc' = "store" <=>
               \/ ScorePasses(state')
               \/ state'.regeneration_count >= cfg.max_regenerations
     /\ pc = "regenerate" => pc' = "evaluate"]_vars

\* EVALUATE routed to STORE with no passing score and regenerations left
C2_StoreWithoutPassingScore ==
  /\ pc = "store"
  /\ ~ScorePasses(state)
  /\ state.regeneration_count < cfg.max_regenerations

\* C3: whenever the loop leaves EVALUATE (towards STORE or REGENERATE) the
\* topic's evaluation is present and carries a numeric overall_score,
\* whatever the judge returned or raised.
C3_EvaluationAlwaysPresent ==
  pc \in {"store", "regenerate"} => state.evaluation.present

\* the loop has decided for STORE on an evaluation that is None
C3_DecidedWithoutScore ==
  /\ pc = "store"
  /\ h.from = "evaluate"
  /\ ~state.evaluation.present
  /\ state.quality_passed

\* ------------------------------------------------------------------------
\* Claims about the stores and the similarity graph (SpecSim)
\* ------------------------------------------------------------------------
\* C4: each time a save has returned or raised, an id is in the vector store
\* if and only if an Article node with that id is in the graph store; a
\* failed graph write leaves nothing behind in the vector store.
C4_StoresAgree == Ids(chroma) = articles

\* an id that only the vector store holds
C4_OrphanInVectorStore == \E id \in Ids(chroma) : id \notin articles

HasEdge(a, b) ==
  \E e \in similar : (e.a1 = a /\ e.a2 = b) \/ (e.a1 = b /\ e.a2 = a)

\* C5: after update_similarities_for_new_articles(new_ids) returns, every
\* pair of a new item and another item of the corpus has a SIMILAR_TO edge
\* if its cosine similarity is >= the threshold and none if it is below.
C5_EdgesMatchThreshold ==
  upd.status = "returned" =>
    \A n \in upd.ids \cap Ids(chroma) : \A o \in Ids(chroma) \ {n} :
      HasEdge(n, o) <=> Cosine(chroma, n, o) >= SimilarityThreshold

\* the update returned and a pair at or above the threshold has no edge
C5_SimilarPairWithoutEdge ==
  /\ upd.status = "returned"
  /\ \E n \in upd.ids \cap Ids(chroma) : \E o \in Ids(chroma) \ {n} :
       /\ Cosine(chroma, n, o) >= SimilarityThreshold
       /\ ~HasEdge(n, o)

\* C6: update_similarities_for_new_articles is idempotent: a second call with
\* the same new ids over an unchanged corpus leaves the set of SIMILAR_TO
\* edges and every score as the first call left them, and there is at most
\* one edge per ordered pair of items.
C6_UpdateIdempotent ==
  /\ upd.repeat => ~upd.changed
  /\ \A e \in similar : \A f \in similar :
       (e.a1 = f.a1 /\ e.a2 = f.a2) => e = f

\* a second call that returned after merging again over existing edges
C6_RepeatedUpdateMerged ==
  /\ upd.repeat
  /\ upd.status = "returned"
  /\ upd.count > 0
  /\ similar # {}

\* C7: the integer returned by update_similarities_for_new_articles is the
\* number of SIMILAR_TO edges created by the call (present after, absent
\* before).
C7_CountIsEdgesCreated ==
  upd.status = "returned" => upd.count = upd.created

\* the call returned a positive count and created no edge
C7_CountedWithoutCreating ==
  /\ upd.status = "returned"
  /\ upd.count > 0
  /\ upd.created = 0

\* ------------------------------------------------------------------------
\* Claims about the batch (Spec)
\* ------------------------------------------------------------------------
Finished(how) == {i \in 1..Len(log) : log[i].how = how}

\* C8: the batch reports an outcome for every topic that entered the
\* pipeline: a topic whose store failed is in the returned results with a
\* null id, its content, summary, evaluation and regeneration_count.
C8_FailedStoreReported ==
  pc = "returned" =>
    \A i \in Finished("failed") :
      \E j \in 1..Len(results) :
        results[j].topic = log[i].topic /\ results[j].article_id = NoId

\* the batch returned, a topic's store had failed, and no result has a null id
C8_FailedStoreDropped ==
  /\ pc = "returned"
  /\ Finished("failed") # {}
  /\ \A j \in 1..Len(results) : results[j].article_id # NoId
  /\ Len(results) < Len(topics)

\* C9: over a non-empty topic list a failure while processing one topic (a
\* failed store, an exception out of the topic's pipeline) never stops the
\* batch: every topic is processed, in list order, and the call returns its
\* result list without raising.
C9_BatchNeverAborts ==
  /\ pc = "raised" => topics = <<>>
  /\ Len(log) <= Len(topics)
  /\ \A i \in 1..Len(log) : log[i].topic = topics[i]
  /\ pc \in {"loop", "search", "invoked", "escaped"} => Len(log) = idx - 1
  /\ pc = "returned" => Len(log) = Len(topics)
  /\ pc = "loop" => idx \in 1..(Len(topics) + 1)
  /\ pc \in {"search", "invoked", "escaped"} => idx \in 1..Len(topics)
  /\ pc \in {"idle", "loop", "search", "invoked", "escaped", "returned",
             "raised"}

\* the batch returned after an exception out of the first topic's run and a
\* failed store of the second
C9_ReturnedAfterFailures ==
  /\ pc = "returned"
  /\ Len(log) = 2
  /\ log[1].how = "error"
  /\ log[2].how = "failed"

\* C10: for a topic that the duplicate check finds within similarity >= 0.85
\* of a persisted item the batch makes no search, generation, judge or store
\* call, counts the topic as skipped and returns no outcome for it.
C10_DuplicateSkipped ==
  /\ \A i \in 1..Len(log) :
       log[i].near => (log[i].how = "duplicate" /\ ~log[i].called)
  /\ pc \in {"search", "invoked", "escaped"} => ~h.near
  /\ Len(results) = Cardinality(Finished("stored"))
  /\ generated = Cardinality(Finished("stored"))
  /\ pc # "idle" => skipped = Len(log) - Cardinality(Finished("stored"))

\* a topic exactly at the threshold from the only stored topic was skipped
C10_SkippedAtThreshold ==
  /\ pc = "returned"
  /\ \E i \in 1..Len(log) :
       /\ log[i].near
       /\ log[i].how = "duplicate"
       /\ \A a \in chroma :
            TopicSim(log[i].topic, a.topic) = DuplicateThreshold
       /\ chroma # {}

\* ------------------------------------------------------------------------
\* Claims about failing steps of a topic's run (SpecLoop)
\* ------------------------------------------------------------------------
\* C11: if the search, generation or summarization step fails for a topic,
\* the corresponding field (search_results, article, vocab_summary) is set
\* to the empty string and the run still proceeds through EVALUATE to STORE.
C11_FailedStepLeavesEmptyField ==
  /\ ("search" \in h.failed) => state.search_results = ""
  /\ ("generate" \in h.failed /\ h.regens = 0) => state.article = EmptyText
  /\ ("vocab" \in h.failed /\ h.regens = 0)
       => state.vocab_summary = EmptySummary
  /\ (RunEnded /\ h.failed # {}) => h.stores = 1

\* the run was stored after a failed search whose message became the context
C11_SearchFailureKeptAsContext ==
  /\ pc = "invoked"
  /\ "search" \in h.failed
  /\ state.search_results # ""
  /\ h.saved = "ok"

\* ------------------------------------------------------------------------
\* ArticleEvaluator.evaluate_article with the criterion scores of the reports
\* ------------------------------------------------------------------------
CriterionScores == {50, 100}

\* a judge completion: "raise", "nonjson", or a JSON object with its
\* criterion scores (in prompt order) and its average_score (NoAvg: absent)
JudgeOutput(kind, scores, avg) ==
  [kind |-> kind, scores |-> scores, avg |-> avg]

PerformanceOutputs ==
  {JudgeOutput("raise", <<>>, NoAvg), JudgeOutput("nonjson", <<>>, NoAvg)}
  \cup {JudgeOutput("json", <<u, f, r>>, a) :
          u \in CriterionScores, f \in CriterionScores, r \in CriterionScores,
          a \in JudgeScores \cup {NoAvg}}

AlignmentOutputs ==
  {JudgeOutput("raise", <<>>, NoAvg), JudgeOutput("nonjson", <<>>, NoAvg)}
  \cup {JudgeOutput("json", <<t, st>>, a) :
          t \in CriterionScores, st \in CriterionScores,
          a \in JudgeScores \cup {NoAvg}}

\* the dict evaluate_task_performance returns: json.loads(response), or the
\* default scores of its except branch
task_performance_result(out) ==
  IF out.kind = "nonjson"
    THEN [usefulness |-> DefaultScore, factuality |-> DefaultScore,
          relevance |-> DefaultScore]
    ELSE [usefulness |-> out.scores[1], factuality |-> out.scores[2],
          relevance |-> out.scores[3]]

\* the dict evaluate_alignment returns, likewise
alignment_result(out) ==
  IF out.kind = "nonjson"
    THEN [tone |-> DefaultScore, style |-> DefaultScore]
    ELSE [tone |-> out.scores[1], style |-> out.scores[2]]

InitEval ==
  /\ chroma = {}
  /\ articles = {}
  /\ similar = {}
  /\ nextId = 1
  /\ topics = <<>>
  /\ cfg = [min_quality_score |-> 70, max_regenerations |-> 2]
  /\ idx = 1
  /\ results = <<>>
  /\ generated = 0
  /\ skipped = 0
  /\ pc = "idle"
  /\ state = InitialState("A")
  /\ h = NoH
  /\ log = <<>>
  /\ upd = NoUpd
  /\ \E o1 \in PerformanceOutputs, o2 \in AlignmentOutputs :
       ev = [status |-> "called", performance |-> o1, alignment |-> o2]
  /\ reads = {}
  /\ ratings = {}
  /\ rec = NoRec
  /\ div = NoDiv
  /\ affinity = {}
  /\ bookmarks = {}
  /\ act = NoAct
  /\ rq = NoQuery
  /\ procs = NoProcs

\* article_evaluator.evaluate_article(article, topic, search_context)
EvaluateArticle ==
  /\ ev.status = "called"
  /\ LET o1 == ev.performance
         o2 == ev.alignment
         e == evaluate_article(Reply(o1.kind, o1.avg, "ok"),
                               Reply(o2.kind, o2.avg, "ok"))
     IN ev' = IF e.raised
                THEN [status |-> "raised", performance |-> o1,
                      alignment |-> o2]
                ELSE [status |-> "returned", performance |-> o1,
                      alignment |-> o2,
                      overall_score |-> e.evaluation.overall_score,
                      task_performance |-> task_performance_result(o1),
                      alignment_eval |-> alignment_result(o2)]
  /\ UNCHANGED <<storeVars, batchVars, pc, state, h, log, upd, reads,
                 ratings, rec, div, intVars>>

NextEval == EvaluateArticle

SpecEval == InitEval /\ [][NextEval]_vars

\* ------------------------------------------------------------------------
\* Claims about the evaluator (SpecEval)
\* ------------------------------------------------------------------------
EvaluateEnded == ev.status \in {"returned", "raised"}

BothNonJson ==
  ev.performance.kind = "nonjson" /\ ev.alignment.kind = "nonjson"

BothParsed == ev.performance.kind = "json" /\ ev.alignment.kind = "json"

\* C12: when both judge calls return a string that is not JSON, evaluate
\* returns without raising, with score 50 for every criterion (usefulness,
\* factuality, relevance, tone, style) and overall_score = 50.
C12_NonJsonFallback ==
  (EvaluateEnded /\ BothNonJson) =>
    /\ ev.status = "returned"
    /\ ev.task_performance.usefulness = 50
    /\ ev.task_performance.factuality = 50
    /\ ev.task_performance.relevance = 50
    /\ ev.alignment_eval.tone = 50
    /\ ev.alignment_eval.style = 50
    /\ ev.overall_score = 50

\* evaluate returned for two completions that are not JSON
C12_ReturnedOnNonJson ==
  /\ ev.status = "returned"
  /\ BothNonJson
  /\ ev.overall_score = DefaultScore

\* C13: for every pair of judge reports that parse, overall_score equals
\* 0.6 times the average of the usefulness, factuality and relevance scores
\* plus 0.4 times the average of the tone and style scores (both sides
\* multiplied by 5: 0.6 / 3 = 0.4 / 2 = 1 / 5).
C13_OverallFromCriteria ==
  (ev.status = "returned" /\ BothParsed) =>
    5 * ev.overall_score =
      ev.task_performance.usefulness + ev.task_performance.factuality
        + ev.task_performance.relevance + ev.alignment_eval.tone
        + ev.alignment_eval.style

\* all five criteria are 100, the reported averages are 50, the overall is 50
C13_OverallIgnoresCriteria ==
  /\ ev.status = "returned"
  /\ BothParsed
  /\ ev.performance.scores = <<100, 100, 100>>
  /\ ev.alignment.scores = <<100, 100>>
  /\ ev.overall_score = 50

\* ------------------------------------------------------------------------
\* EnhancedRecommendationService: ranking
\* Component scores are in thousandths, final scores in 1/100000
\* (weights in hundredths times components in thousandths).
\* ------------------------------------------------------------------------
SimilarityWeight == 35
TopicWeight == 20
RatingWeight == 30
RecencyWeight == 15
NeutralScore == 500
RelevanceFactor == 7
DiversityFactor == 3
DefaultAvgRating == 3

\* a null property or a missing key of a candidate map
NoScore == -1
NoTopic == "none"

Readers == {"u1"}
Raters == {"u2"}
RatingScores == {2, 5}
Limits == {1, 2}

Take(seq, n) == SubSeq(seq, 1, IF n < Len(seq) THEN n ELSE Len(seq))

RemoveAt(seq, i) == SubSeq(seq, 1, i - 1) \o SubSeq(seq, i + 1, Len(seq))

SeqToSet(seq) == {seq[i] : i \in 1..Len(seq)}

MaxOf(S) == CHOOSE x \in S : \A y \in S : y <= x

\* list.sort(key=lambda x: x["score"], reverse=True): stable, descending
RECURSIVE insert_by_score(_, _)
insert_by_score(sorted, c) ==
  IF sorted = <<>> THEN <<c>>
  ELSE IF Head(sorted).score >= c.score
    THEN <<Head(sorted)>> \o insert_by_score(Tail(sorted), c)
  ELSE <<c>> \o sorted

RECURSIVE sort_by_score(_)
sort_by_score(seq) ==
  IF seq = <<>> THEN <<>>
  ELSE insert_by_score(sort_by_score(SubSeq(seq, 1, Len(seq) - 1)),
                       seq[Len(seq)])

\* _get_embeddings_for_articles: the embedding (its topic stands for it) of
\* every requested id the collection holds
get_embeddings_for_articles(C, ids) ==
  [id \in Ids(C) \cap ids |-> TopicOfId(C, id)]

\* max_similarity of the inner loop: starts at 0.0, np.dot with each selected
max_similarity(c, selected, emb) ==
  MaxOf({0} \cup {TopicSim(emb[c.article_id], emb[selected[i].article_id]) :
                   i \in 1..Len(selected)})

\* mmr_score = 0.7 * relevance - 0.3 * max_similarity, in millionths
mmr_score(c, selected, emb) ==
  RelevanceFactor * c.score
    - DiversityFactor * 1000 * max_similarity(c, selected, emb)

\* best_idx of one pass: the first index with the greatest mmr_score
best_idx(selected, remaining, emb) ==
  CHOOSE i \in 1..Len(remaining) :
    /\ \A j \in 1..Len(remaining) :
         mmr_score(remaining[j], selected, emb)
           <= mmr_score(remaining[i], selected, emb)
    /\ \A j \in 1..(i - 1) :
         mmr_score(remaining[j], selected, emb)
           < mmr_score(remaining[i], selected, emb)

\* variant of the selection loop that runs until nothing remains
RECURSIVE mmr_loop_unbounded(_, _, _, _)
mmr_loop_unbounded(selected, remaining, max_candidates, emb) ==
  IF remaining = <<>> THEN selected
  ELSE LET b == best_idx(selected, remaining, emb)
       IN mmr_loop_unbounded(Append(selected, remaining[b]),
                             RemoveAt(remaining, b), max_candidates, emb)

\* while len(selected) < max_candidates and remaining: ...
RECURSIVE mmr_loop(_, _, _, _)
mmr_loop(selected, remaining, max_candidates, emb) ==
  IF Len(selected) >= max_candidates \/ remaining = <<>> THEN selected
  ELSE LET b == best_idx(selected, remaining, emb)
       IN mmr_loop(Append(selected, remaining[b]), RemoveAt(remaining, b),
                   max_candidates, emb)

\* EnhancedRecommendationService._apply_diversity_filter; emb is the
\* embeddings_map of the candidates' ids
apply_diversity_filter(candidates, max_candidates, emb) ==
  IF Len(candidates) <= max_candidates THEN candidates
  ELSE LET candidates_with_emb ==
             SelectSeq(candidates, LAMBDA c : c.article_id \in DOMAIN emb)
       IN IF candidates_with_emb = <<>> THEN Take(candidates, max_candidates)
          ELSE mmr_loop(<<Head(candidates_with_emb)>>,
                        Tail(candidates_with_emb), max_candidates, emb)

\* scored_candidates.sort(key=score, reverse=True); scored_candidates[:limit]
top_recommendations(scored, limit) == Take(sort_by_score(scored), limit)

\* ------------------------------------------------------------------------
\* EnhancedRecommendationService: candidate gathering, scoring, cold start
\* R is the set of READ relationships <<user, article>>, G the set of RATED
\* relationships [user, article, score], A the Article nodes, E the
\* SIMILAR_TO relationships, C the vector collection.
\* ------------------------------------------------------------------------
Reverse(seq) == [i \in 1..Len(seq) |-> seq[Len(seq) + 1 - i]]

\* a MATCH without ORDER BY yields its nodes in an order the database picks
NodeOrders == {"asc", "desc"}

InOrder(S, order) == IF order = "asc" THEN AllIds(S) ELSE Reverse(AllIds(S))

RECURSIVE Concat(_)
Concat(seqs) == IF seqs = <<>> THEN <<>> ELSE Head(seqs) \o Concat(Tail(seqs))

\* DISTINCT: the first occurrence of each value, in order
RECURSIVE Distinct(_)
Distinct(seq) ==
  IF seq = <<>> THEN <<>>
  ELSE LET rest == Distinct(SubSeq(seq, 1, Len(seq) - 1))
           last == seq[Len(seq)]
       IN IF last \in SeqToSet(rest) THEN rest ELSE Append(rest, last)

RECURSIVE SumScores(_)
SumScores(S) ==
  IF S = {} THEN 0
  ELSE LET g == CHOOSE x \in S : TRUE IN g.score + SumScores(S \ {g})

RatingsOf(G, a) == {g \in G : g.article = a}

\* COUNT(rating)
rating_count(G, a) == Cardinality(RatingsOf(G, a))

\* AVG(rating.score) in thousandths; NoScore for null (no rating)
avg_rating(G, a) ==
  IF RatingsOf(G, a) = {} THEN NoScore
  ELSE (1000 * SumScores(RatingsOf(G, a))) \div rating_count(G, a)

\* COUNT(DISTINCT u) over (u)-[:READ]->(a)
read_count(R, a) == Cardinality({r \in R : r[2] = a})

read_ids(R, A, user) == {a \in A : <<user, a>> \in R}

\* EnhancedRecommendationService._user_has_reading_history
user_has_reading_history(R, A, user) == read_ids(R, A, user) # {}

\* a candidate map all of whose properties are null
NullRow ==
  [article_id |-> NoId, topic |-> NoTopic, created_at |-> FALSE,
   source |-> "unknown", similarity_score |-> NoScore,
   source_article |-> NoId, matched_topic |-> NoTopic,
   avg_rating |-> NoScore, rating_count |-> 0]

ArticleRow(C, a) ==
  [NullRow EXCEPT !.article_id = a, !.topic = TopicOfId(C, a),
                  !.created_at = TRUE]

\* Source 1: UNWIND read_ids AS rid, OPTIONAL MATCH
\* (:Article {article_id: rid})-[sim:SIMILAR_TO]->(similar) WHERE NOT
\* similar.article_id IN read_ids; a rid without a match yields a null row
similar_candidates(C, A, E, readSeq, order) ==
  LET read == SeqToSet(readSeq)
      matched(rid) ==
        SelectSeq(InOrder(A \ read, order),
                  LAMBDA x : \E e \in E : e.a1 = rid /\ e.a2 = x)
      score(rid, x) == (CHOOSE e \in E : e.a1 = rid /\ e.a2 = x).score
      rows(rid) ==
        IF matched(rid) = <<>>
          THEN <<[NullRow EXCEPT !.source = "similarity",
                                 !.source_article = rid]>>
          ELSE [i \in 1..Len(matched(rid)) |->
                  [ArticleRow(C, matched(rid)[i]) EXCEPT
                     !.source = "similarity",
                     !.similarity_score = score(rid, matched(rid)[i]),
                     !.source_article = rid]]
  IN Distinct(Concat([i \in 1..Len(readSeq) |-> rows(readSeq[i])]))

\* Source 2: UNWIND read_topics AS topic, OPTIONAL MATCH
\* (topic_article:Article {topic: topic}) WHERE NOT read
topic_candidates(C, A, readSeq, order) ==
  LET read == SeqToSet(readSeq)
      read_topics ==
        Distinct([i \in 1..Len(readSeq) |-> TopicOfId(C, readSeq[i])])
      matched(t) ==
        SelectSeq(InOrder(A \ read, order), LAMBDA x : TopicOfId(C, x) = t)
      rows(t) ==
        IF matched(t) = <<>>
          THEN <<[NullRow EXCEPT !.source = "topic", !.matched_topic = t]>>
          ELSE [i \in 1..Len(matched(t)) |->
                  [ArticleRow(C, matched(t)[i]) EXCEPT
                     !.source = "topic", !.matched_topic = t]]
  IN Distinct(Concat([i \in 1..Len(read_topics) |-> rows(read_topics[i])]))

\* Source 3: MATCH (other_article) WHERE NOT read, OPTIONAL MATCH its
\* ratings, WHERE rating_count > 0
rating_candidates(C, A, G, readSeq, order) ==
  LET rated == SelectSeq(InOrder(A \ SeqToSet(readSeq), order),
                         LAMBDA x : rating_count(G, x) > 0)
  IN [i \in 1..Len(rated) |->
        [ArticleRow(C, rated[i]) EXCEPT
           !.source = "ratings",
           !.avg_rating = avg_rating(G, rated[i]),
           !.rating_count = rating_count(G, rated[i])]]

\* variant of the query in which the rating source is collected like the
\* other two, so that no rated article still leaves one row
candidate_rows_optional(C, A, E, R, G, user, order) ==
  LET readSeq == InOrder(read_ids(R, A, user), order)
  IN IF readSeq = <<>> THEN <<>>
     ELSE Distinct(similar_candidates(C, A, E, readSeq, order)
                     \o topic_candidates(C, A, readSeq, order)
                     \o rating_candidates(C, A, G, readSeq, order))

\* the rows of the query of _get_recommendation_candidates: the first MATCH
\* and the MATCH ... WHERE rating_count > 0 ... COLLECT of source 3 yield no
\* row at all when nothing matches
candidate_rows(C, A, E, R, G, user, order) ==
  LET readSeq == InOrder(read_ids(R, A, user), order)
  IN IF readSeq = <<>> THEN <<>>
     ELSE IF rating_candidates(C, A, G, readSeq, order) = <<>> THEN <<>>
     ELSE Distinct(similar_candidates(C, A, E, readSeq, order)
                     \o topic_candidates(C, A, readSeq, order)
                     \o rating_candidates(C, A, G, readSeq, order))

\* candidates_map: the first row of each article_id, with the sources of
\* all its rows
RECURSIVE group_candidates(_, _)
group_candidates(rows, acc) ==
  IF rows = <<>> THEN acc
  ELSE LET row == Head(rows)
           at == {i \in 1..Len(acc) : acc[i].article_id = row.article_id}
       IN group_candidates(
            Tail(rows),
            IF at = {}
              THEN Append(acc, [row |-> row, article_id |-> row.article_id,
                                sources |-> <<row.source>>])
              ELSE [i \in 1..Len(acc) |->
                      IF i \in at
                        THEN [acc[i] EXCEPT !.sources = Append(@, row.source)]
                        ELSE acc[i]])

\* EnhancedRecommendationService._get_recommendation_candidates
get_recommendation_candidates(C, A, E, R, G, user, order) ==
  group_candidates(candidate_rows(C, A, E, R, G, user, order), <<>>)

\* _calculate_similarity_score
calculate_similarity_score(candidate) ==
  IF "similarity" \in SeqToSet(candidate.sources)
    THEN IF candidate.row.similarity_score # NoScore
           THEN 10 * candidate.row.similarity_score
           ELSE NeutralScore
    ELSE 0

\* _calculate_topic_score: no INTERESTED_IN relationship is ever written,
\* so a topic-sourced candidate gets the default with or without a topic
calculate_topic_score(candidate) ==
  IF "topic" \notin SeqToSet(candidate.sources) THEN 0
  ELSE NeutralScore

\* _calculate_rating_score
calculate_rating_score(candidate) ==
  IF "ratings" \notin SeqToSet(candidate.sources) THEN NeutralScore
  ELSE IF candidate.row.avg_rating = NoScore THEN NeutralScore
  ELSE LET normalized_rating == candidate.row.avg_rating \div 5
           confidence == IF candidate.row.rating_count < 10
                           THEN candidate.row.rating_count ELSE 10
       IN (normalized_rating * confidence
             + NeutralScore * (10 - confidence)) \div 10

\* _calculate_recency_score: an article is created_at the time of the call
\* (age 0 days, exp(0) = 1); no created_at is neutral
calculate_recency_score(candidate) ==
  IF candidate.row.created_at THEN 1000 ELSE NeutralScore

\* EnhancedRecommendationService._score_candidates
score_candidates(candidates) ==
  [i \in 1..Len(candidates) |->
     LET c == candidates[i]
         component_scores ==
           [similarity |-> calculate_similarity_score(c),
            topic |-> calculate_topic_score(c),
            rating |-> calculate_rating_score(c),
            recency |-> calculate_recency_score(c)]
     IN [article_id |-> c.article_id,
         score |-> SimilarityWeight * component_scores.similarity
                     + TopicWeight * component_scores.topic
                     + RatingWeight * component_scores.rating
                     + RecencyWeight * component_scores.recency,
         component_scores |-> component_scores,
         sources |-> c.sources,
         metadata |-> c.row]]

\* cold_start_score = read_count*0.4 + avg_rating*0.4 + recency*10*0.2, in
\* 1/10000, with COALESCE(avg_rating, 3.0) and recency 1.0 at age 0
cold_start_score(R, G, a) ==
  4000 * read_count(R, a)
    + 4 * (IF avg_rating(G, a) = NoScore THEN 1000 * DefaultAvgRating
           ELSE avg_rating(G, a))
    + 20 * 1000

Orderings(S) ==
  {o \in [1..Cardinality(S) -> S] :
     \A i \in DOMAIN o : \A j \in DOMAIN o : i # j => o[i] # o[j]}

\* variant of the cold-start query that only lists articles somebody read
\* (MATCH instead of OPTIONAL MATCH)
cold_start_recommendations_read(A, R, G, limit) ==
  LET read == {a \in A : read_count(R, a) > 0}
  IN {Take([i \in DOMAIN o |->
              [article_id |-> o[i], score |-> cold_start_score(R, G, o[i])]],
           limit) :
        o \in {p \in Orderings(read) :
                 \A i \in DOMAIN p : \A j \in DOMAIN p :
                   i < j => cold_start_score(R, G, p[i])
                              >= cold_start_score(R, G, p[j])}}

\* EnhancedRecommendationService.get_cold_start_recommendations: every list
\* ORDER BY cold_start_score DESC LIMIT $limit can return (ties in any order)
cold_start_recommendations(A, R, G, limit) ==
  {Take([i \in DOMAIN o |->
           [article_id |-> o[i], score |-> cold_start_score(R, G, o[i])]],
        limit) :
     o \in {p \in Orderings(A) :
              \A i \in DOMAIN p : \A j \in DOMAIN p :
                i < j => cold_start_score(R, G, p[i])
                           >= cold_start_score(R, G, p[j])}}

\* EnhancedRecommendationService.get_user_recommendations; cold is the list
\* a cold-start call returns, nullIdRaises whether collection.get raises on
\* an id list that holds None
get_user_recommendations(C, A, E, R, G, user, limit, apply_diversity, order, nullIdRaises, cold) ==
  LET call == [user |-> user, limit |-> limit,
               apply_diversity |-> apply_diversity]
      candidates == get_recommendation_candidates(C, A, E, R, G, user, order)
      scored == score_candidates(candidates)
      ids == {scored[i].article_id : i \in 1..Len(scored)}
      filters == apply_diversity /\ Len(scored) > 2 * limit
      filtered ==
        IF apply_diversity
          THEN apply_diversity_filter(scored, 2 * limit,
                                      get_embeddings_for_articles(C, ids))
          ELSE scored
  IN IF ~user_has_reading_history(R, A, user)
       THEN [path |-> "cold", call |-> call, result |-> cold]
     ELSE IF candidates = <<>>
       THEN [path |-> "fallback", call |-> call, result |-> cold]
     ELSE IF filters /\ NoId \in ids /\ nullIdRaises
       THEN [path |-> "raised", call |-> call, scored |-> scored]
     ELSE [path |-> "personalized", call |-> call, scored |-> scored,
           filtered |-> filtered,
           result |-> top_recommendations(filtered, limit)]

\* ------------------------------------------------------------------------
\* The recommendation endpoints, one request at a time (SpecRec)
\* ------------------------------------------------------------------------
\* StorageService.save_article between two recommendation requests
AddArticle(topic, outcome, failAt) ==
  /\ rec = NoRec
  /\ act = NoAct
  /\ Save(topic, outcome, failAt)

\* record_interaction(interaction_type="read"): add_user, add_user_read
RecordRead(user, a) ==
  /\ pc = "idle"
  /\ rec = NoRec
  /\ act = NoAct
  /\ reads' = IF a \in articles THEN reads \cup {<<user, a>>} ELSE reads
  /\ act' = [status |-> "success", type |-> "read", user |-> user,
             article |-> a]
  /\ UNCHANGED <<storeVars, batchVars, pc, state, h, log, upd, ev, ratings,
                 rec, div, affinity, bookmarks, rq, procs>>

\* record_interaction(interaction_type="rate"): add_user, add_rating
RecordRating(user, a, score) ==
  /\ pc = "idle"
  /\ rec = NoRec
  /\ act = NoAct
  /\ ratings' =
       IF a \in articles /\ score # NoScore
         THEN {g \in ratings : ~(g.user = user /\ g.article = a)}
                \cup {[user |-> user, article |-> a, score |-> score]}
         ELSE ratings
  /\ act' = [status |-> IF score = NoScore THEN "error" ELSE "success",
             type |-> "rate", user |-> user, article |-> a]
  /\ UNCHANGED <<storeVars, batchVars, pc, state, h, log, upd, ev, reads,
                 rec, div, affinity, bookmarks, rq, procs>>

\* record_interaction(interaction_type="bookmark"): add_user, MERGE BOOKMARKED
RecordBookmark(user, a) ==
  /\ pc = "idle"
  /\ rec = NoRec
  /\ act = NoAct
  /\ bookmarks' =
       IF a \in articles THEN bookmarks \cup {<<user, a>>} ELSE bookmarks
  /\ act' = [status |-> "success", type |-> "bookmark", user |-> user,
             article |-> a]
  /\ UNCHANGED <<storeVars, batchVars, pc, state, h, log, upd, ev, reads,
                 ratings, rec, div, affinity, rq, procs>>

\* record_interaction returns its status message, or the HTTPException
\* leaves the handler
ReturnInteraction ==
  /\ act # NoAct
  /\ act' = NoAct
  /\ UNCHANGED <<storeVars, batchVars, pc, state, h, log, upd, ev, reads,
                 ratings, rec, div, affinity, bookmarks, rq, procs>>

\* enhanced_recommendation_service.get_user_recommendations(user_id, limit,
\* apply_diversity=...)
Recommend(user, limit, apply_diversity, order, nullIdRaises) ==
  /\ pc = "idle"
  /\ rec = NoRec
  /\ act = NoAct
  /\ \E cold \in cold_start_recommendations(articles, reads, ratings, limit) :
       rec' = get_user_recommendations(chroma, articles, similar, reads,
                                       ratings, user, limit, apply_diversity,
                                       order, nullIdRaises, cold)
  /\ UNCHANGED <<storeVars, batchVars, pc, state, h, log, upd, ev, reads,
                 ratings, div, intVars>>

\* the response is sent; the next request can be served
ReturnRecommendations ==
  /\ rec # NoRec
  /\ rec' = NoRec
  /\ UNCHANGED <<storeVars, batchVars, pc, state, h, log, upd, ev, reads,
                 ratings, div, intVars>>

NextRec ==
  \/ \E topic \in TopicNames, outcome \in {"chroma", "neo4j", "ok"} :
       \E failAt \in SaveFailPoints(chroma, nextId, topic, outcome) :
         AddArticle(topic, outcome, failAt)
  \/ \E user \in Readers, a \in 1..MaxItems : RecordRead(user, a)
  \/ \E user \in Raters, a \in 1..MaxItems, score \in RatingScores :
       RecordRating(user, a, score)
  \/ \E user \in Readers, limit \in Limits, apply_diversity \in BOOLEAN,
        order \in NodeOrders, nullIdRaises \in BOOLEAN :
       Recommend(user, limit, apply_diversity, order, nullIdRaises)
  \/ ReturnRecommendations
  \/ ReturnInteraction

SpecRec == Init /\ [][NextRec]_vars

\* record_interaction with every interaction type, and article storage
NextInt ==
  \/ \E topic \in TopicNames, outcome \in {"chroma", "neo4j", "ok"} :
       \E failAt \in SaveFailPoints(chroma, nextId, topic, outcome) :
         AddArticle(topic, outcome, failAt)
  \/ \E user \in Readers, a \in 1..MaxItems : RecordRead(user, a)
  \/ \E user \in Raters, a \in 1..MaxItems,
        score \in RatingScores \cup {NoScore} :
       RecordRating(user, a, score)
  \/ \E user \in Readers, a \in 1..MaxItems : RecordBookmark(user, a)
  \/ ReturnInteraction

SpecInt == Init /\ [][NextInt]_vars

\* ------------------------------------------------------------------------
\* Claims about recommend (SpecRec)
\* ------------------------------------------------------------------------
Recommended == rec.path # "none"

HasHistory == read_ids(reads, articles, rec.call.user) # {}

\* list is a cold-start ranking of the graph's articles for this limit
IsColdStartRanking(list, limit) ==
  LET listed == {list[i].article_id : i \in 1..Len(list)}
  IN /\ Len(list) = IF Cardinality(articles) < limit
                      THEN Cardinality(articles) ELSE limit
     /\ listed \subseteq articles
     /\ Cardinality(listed) = Len(list)
     /\ \A i \in 1..Len(list) :
          list[i].score = cold_start_score(reads, ratings, list[i].article_id)
     /\ \A i \in 1..Len(list) : \A j \in 1..Len(list) :
          i < j => list[i].score >= list[j].score
     /\ \A a \in articles \ listed : \A i \in 1..Len(list) :
          cold_start_score(reads, ratings, a) <= list[i].score

\* C14: recommend for a user with zero READ edges always returns the
\* cold-start ranking, and that result is non-empty whenever at least one
\* article exists in the graph store.
C14_NoHistoryGetsColdStart ==
  (Recommended /\ ~HasHistory) =>
    /\ rec.path \in {"cold", "fallback"}
    /\ IsColdStartRanking(rec.result, rec.call.limit)
    /\ articles # {} => rec.result # <<>>

\* a user without reads got a cold-start list of two articles
C14_ColdStartListReturned ==
  /\ rec.path = "cold"
  /\ ~HasHistory
  /\ Len(rec.result) = 2

\* no unread article is the target of a SIMILAR_TO edge from a read article,
\* shares its topic with a read article, or has a rating
NoRecommendableItem ==
  LET read == read_ids(reads, articles, rec.call.user)
  IN \A x \in articles \ read :
       /\ ~\E e \in similar : e.a1 \in read /\ e.a2 = x
       /\ ~\E r \in read : TopicOfId(chroma, r) = TopicOfId(chroma, x)
       /\ rating_count(ratings, x) = 0

\* C15: for a user with reading history, whenever candidate gathering finds
\* no recommendable item, recommend returns the cold-start ranking instead of
\* an empty list, a list holding an id-less candidate, or an error.
C15_EmptyGatheringFallsBack ==
  (Recommended /\ HasHistory /\ NoRecommendableItem) =>
    /\ rec.path = "fallback"
    /\ IsColdStartRanking(rec.result, rec.call.limit)
    /\ rec.result # <<>>
    /\ \A i \in 1..Len(rec.result) : rec.result[i].article_id # NoId

\* a reader with an unread but unrelated and unrated article got the
\* cold-start list
C15_FellBackWithUnreadArticle ==
  /\ rec.path = "fallback"
  /\ HasHistory
  /\ NoRecommendableItem
  /\ articles \ read_ids(reads, articles, rec.call.user) # {}

\* C20: for every gathered candidate, the similarity component of its score
\* equals the stored SIMILAR_TO edge score when the candidate was gathered
\* from the similarity source (also when it was gathered from the topic or
\* rating source as well), and equals 0 when it was not.
C20_SimilarityComponentIsEdgeScore ==
  rec.path \in {"personalized", "raised"} =>
    \A i \in 1..Len(rec.scored) :
      LET c == rec.scored[i]
          read == read_ids(reads, articles, rec.call.user)
      IN IF "similarity" \in SeqToSet(c.sources)
           THEN \E e \in similar :
                  /\ e.a1 \in read
                  /\ e.a2 = c.article_id
                  /\ c.component_scores.similarity = 10 * e.score
           ELSE c.component_scores.similarity = 0

\* a candidate without an id, tagged 'similarity', scored 0.5 for similarity
C20_IdlessSimilarityCandidate ==
  /\ rec.path = "personalized"
  /\ \E i \in 1..Len(rec.scored) :
       /\ rec.scored[i].article_id = NoId
       /\ "similarity" \in SeqToSet(rec.scored[i].sources)
       /\ rec.scored[i].component_scores.similarity = NeutralScore

\* ------------------------------------------------------------------------
\* Diversity filtering and the final slice on scored candidate lists (SpecDiv)
\* ------------------------------------------------------------------------
MaxCands == 3
DiversityThreshold == 85

\* final scores in 1/100000
CandidateScores == {50000, 80000, 90000}

\* scored candidates as _score_candidates returns them: one per article_id,
\* in gathering order; emb[i] is NoTopic when the collection has no embedding
ScoredCandidates(scores) ==
  [i \in 1..Len(scores) |-> [article_id |-> i, score |-> scores[i]]]

EmbeddingsMap(embs) ==
  [id \in {i \in 1..Len(embs) : embs[i] # NoTopic} |-> embs[id]]

InitDiv ==
  /\ chroma = {}
  /\ articles = {}
  /\ similar = {}
  /\ nextId = 1
  /\ topics = <<>>
  /\ cfg = [min_quality_score |-> 70, max_regenerations |-> 2]
  /\ idx = 1
  /\ results = <<>>
  /\ generated = 0
  /\ skipped = 0
  /\ pc = "idle"
  /\ state = InitialState("A")
  /\ h = NoH
  /\ log = <<>>
  /\ upd = NoUpd
  /\ ev = NoEv
  /\ reads = {}
  /\ ratings = {}
  /\ rec = NoRec
  /\ affinity = {}
  /\ bookmarks = {}
  /\ act = NoAct
  /\ rq = NoQuery
  /\ procs = NoProcs
  /\ \E n \in 0..MaxCands, limit \in Limits :
       \E scores \in [1..n -> CandidateScores],
          embs \in [1..n -> TopicNames \cup {NoTopic}] :
         div = [status |-> "called", candidates |-> ScoredCandidates(scores),
                emb |-> EmbeddingsMap(embs), limit |-> limit]

\* get_user_recommendations from the diversity filter on, apply_diversity=True
ApplyDiversity ==
  /\ div.status = "called"
  /\ LET filtered ==
           apply_diversity_filter(div.candidates, 2 * div.limit, div.emb)
     IN div' = [status |-> "returned", candidates |-> div.candidates,
                emb |-> div.emb, limit |-> div.limit,
                filtered |-> filtered,
                result |-> top_recommendations(filtered, div.limit)]
  /\ UNCHANGED <<storeVars, batchVars, pc, state, h, log, upd, ev, reads,
                 ratings, rec, intVars>>

NextDiv == ApplyDiversity

SpecDiv == InitDiv /\ [][NextDiv]_vars

\* ------------------------------------------------------------------------
\* Claims about diversity filtering (SpecDiv)
\* ------------------------------------------------------------------------
IdsOf(list) == {list[i].article_id : i \in 1..Len(list)}

\* the filter went past its early return
FilterRan ==
  div.status = "returned" /\ Len(div.candidates) > 2 * div.limit

\* candidates a, b are near-duplicates with the two highest scores and d is
\* a diverse candidate with a lower score
NearDuplicatesAndDiverse(a, b, d) ==
  /\ IdsOf(div.candidates) = {a, b, d}
  /\ a # b
  /\ {a, b, d} \subseteq DOMAIN div.emb
  /\ TopicSim(div.emb[a], div.emb[b]) > DiversityThreshold
  /\ TopicSim(div.emb[a], div.emb[d]) <= DiversityThreshold
  /\ TopicSim(div.emb[b], div.emb[d]) <= DiversityThreshold
  /\ div.candidates[d].score < div.candidates[a].score
  /\ div.candidates[d].score < div.candidates[b].score

\* C16: with apply_diversity on and limit = 2, given two near-duplicate
\* high-scoring candidates and one diverse lower-scoring candidate, the
\* returned list does not contain both near-duplicates: its second slot
\* holds the diverse one.
C16_NearDuplicatesNotBothReturned ==
  (div.status = "returned" /\ div.limit = 2 /\ Len(div.candidates) = 3) =>
    \A a \in 1..3, b \in 1..3, d \in 1..3 :
      NearDuplicatesAndDiverse(a, b, d) =>
        /\ ~({a, b} \subseteq IdsOf(div.result))
        /\ div.result[2].article_id = d

\* both near-duplicates were returned and the diverse candidate was not
C16_BothNearDuplicatesReturned ==
  /\ div.status = "returned"
  /\ div.limit = 2
  /\ Len(div.candidates) = 3
  /\ \E a \in 1..3, b \in 1..3, d \in 1..3 :
       /\ NearDuplicatesAndDiverse(a, b, d)
       /\ IdsOf(div.result) = {a, b}

\* C17: whenever diversity filtering runs (candidate count > 2*limit), the
\* first candidate it selects is one with the highest final score among the
\* candidates, and each later pick is a remaining candidate that maximizes
\* 0.7*relevance - 0.3*(maximum similarity to the candidates selected).
C17_PicksFollowMMR ==
  (FilterRan /\ DOMAIN div.emb # {}) =>
    /\ \A i \in 1..Len(div.candidates) :
         div.candidates[i].score <= div.filtered[1].score
    /\ \A k \in 2..Len(div.filtered) :
         LET selected == SubSeq(div.filtered, 1, k - 1)
         IN \A i \in 1..Len(div.candidates) :
              (/\ div.candidates[i].article_id \in DOMAIN div.emb
               /\ div.candidates[i].article_id \notin IdsOf(selected))
                => mmr_score(div.candidates[i], selected, div.emb)
                     <= mmr_score(div.filtered[k], selected, div.emb)

\* the filter's first pick scores lower than another candidate
C17_FirstPickNotHighest ==
  /\ FilterRan
  /\ DOMAIN div.emb = IdsOf(div.candidates)
  /\ \E i \in 1..Len(div.candidates) :
       div.candidates[i].score > div.filtered[1].score

\* C18: during diversity filtering, a candidate that has no embedding in
\* the vector store is never dropped: it bypasses the filter and is
\* appended, in raw-score order, after the diversified set.
C18_NoEmbeddingNeverDropped ==
  FilterRan =>
    \A i \in 1..Len(div.candidates) :
      div.candidates[i].article_id \notin DOMAIN div.emb
        => div.candidates[i].article_id \in IdsOf(div.filtered)

\* the filter ran on candidates some of which have an embedding, and its
\* output leaves out a candidate that has none
C18_NoEmbeddingDropped ==
  /\ FilterRan
  /\ DOMAIN div.emb # {}
  /\ Len(div.filtered) < 2 * div.limit
  /\ \E i \in 1..Len(div.candidates) :
       /\ div.candidates[i].article_id \notin DOMAIN div.emb
       /\ div.candidates[i].article_id \notin IdsOf(div.filtered)

\* C19: the list returned on the personalized path has at most limit
\* entries, contains no item id twice, and is ordered by non-increasing
\* final score; the diversity filter's output has at most 2*limit entries,
\* all taken from its input without repetition.
C19_ResultBoundedUniqueSorted ==
  div.status = "returned" =>
    /\ Len(div.result) <= div.limit
    /\ Cardinality(IdsOf(div.result)) = Len(div.result)
    /\ \A i \in 1..Len(div.result) : \A j \in 1..Len(div.result) :
         i < j => div.result[i].score >= div.result[j].score
    /\ Len(div.filtered) <= 2 * div.limit
    /\ SeqToSet(div.filtered) \subseteq SeqToSet(div.candidates)
    /\ Cardinality(IdsOf(div.filtered)) = Len(div.filtered)

\* the filter ran and cut three candidates to two, one of which is returned
C19_FilteredAndTruncated ==
  /\ FilterRan
  /\ Len(div.candidates) = 3
  /\ Len(div.filtered) = 2
  /\ Len(div.result) = 1

\* ------------------------------------------------------------------------
\* Claims about record_interaction (SpecInt)
\* ------------------------------------------------------------------------
\* i.score of (user)-[i:INTERESTED_IN]->(topic) in F, 0 without relationship
AffinityScore(F, user, topic) ==
  IF \E r \in F : r.user = user /\ r.topic = topic
    THEN (CHOOSE r \in F : r.user = user /\ r.topic = topic).score
    ELSE 0

\* C21: each read interaction recorded through record_interaction for a
\* user and an article of topic T raises that user's topic-affinity score
\* for T by exactly 1, starting from 0; the score never decreases.
C21_ReadRaisesTopicAffinity ==
  [][/\ \A user \in Readers : \A t \in TopicNames :
          AffinityScore(affinity', user, t) >= AffinityScore(affinity, user, t)
     /\ (/\ act = NoAct
         /\ act'.status = "success"
         /\ act'.type = "read"
         /\ act'.article \in articles)
          => AffinityScore(affinity', act'.user,
                           TopicOfId(chroma, act'.article))
               = AffinityScore(affinity, act'.user,
                               TopicOfId(chroma, act'.article)) + 1]_vars

\* a read of an existing article was recorded and no affinity exists
C21_ReadWithoutAffinity ==
  /\ act.status = "success"
  /\ act.type = "read"
  /\ <<act.user, act.article>> \in reads
  /\ AffinityScore(affinity, act.user, TopicOfId(chroma, act.article)) = 0

\* the interaction relationships that end at article a
InteractionEdges(a) ==
  {r \in reads : r[2] = a} \cup {b \in bookmarks : b[2] = a}
    \cup {<<g.user, g.article>> : g \in {x \in ratings : x.article = a}}

\* C22: record_interaction (read, rate or bookmark) with an article id that
\* does not exist in the graph store reports an error to the caller instead
\* of success, and records no interaction edge.
C22_UnknownArticleReported ==
  (act # NoAct /\ act.article \notin articles) =>
    /\ act.status = "error"
    /\ InteractionEdges(act.article) = {}

\* a bookmark of an article that does not exist was answered with success
C22_UnknownArticleSucceeded ==
  /\ act.status = "success"
  /\ act.type = "bookmark"
  /\ act.article \notin articles
  /\ InteractionEdges(act.article) = {}

\* ------------------------------------------------------------------------
\* run_daily_articles_with_evaluation called with arguments in and out of
\* their documented ranges (SpecValid)
\* ------------------------------------------------------------------------
ThresholdInputs == {-10, 70, 150}

RegenerationInputs == {-1} \cup (0..MaxRegen)

NextValid ==
  \/ \E ts \in TopicSeqs, q \in ThresholdInputs, n \in RegenerationInputs :
       StartBatch(ts, q, n)
  \/ \E queryRaises \in BOOLEAN : CheckDuplicate(queryRaises)
  \/ \E reply \in JudgeReplies, outcome \in {"chroma", "neo4j", "ok"} :
       \E failAt \in SaveFailPoints(chroma, nextId, state.topic, outcome) :
         Invoke(reply, outcome, failAt)
  \/ TopicDone
  \/ TopicError
  \/ ReturnResults

SpecValid == Init /\ [][NextValid]_vars

\* the arguments of the running call are outside their documented ranges:
\* no topic, quality threshold outside 0-100, negative regeneration budget
InvalidInput ==
  \/ topics = <<>>
  \/ cfg.min_quality_score < 0
  \/ cfg.min_quality_score > 100
  \/ cfg.max_regenerations < 0

\* C23: an empty topic list, an out-of-range quality threshold or
\* regeneration budget, and out-of-range ranking weights are each rejected
\* with an error before any generation, judge, store or ranking step runs;
\* no external call or store write happens for a rejected input.
C23_InvalidInputRejected ==
  (pc # "idle" /\ InvalidInput) => pc = "raised"

\* a topic was generated and stored under a quality threshold above 100
C23_StoredUnderInvalidThreshold ==
  /\ pc = "invoked"
  /\ cfg.min_quality_score > 100
  /\ h.saved = "ok"
  /\ state.article_id \in articles

\* ------------------------------------------------------------------------
\* Neo4jManager.run_query (SpecQuery)
\* ------------------------------------------------------------------------
MaxRetries == 3
InitialRetryDelay == 1

TransientErrors == {"ServiceUnavailable", "SessionExpired", "TransientError"}

\* what session.run does on one attempt: the rows, one of the errors the
\* first except clause names, or any other exception
AttemptOutcomes == {"rows", "other"} \cup TransientErrors

\* variant of the loop body whose first except clause catches every exception
run_query_attempt_catch_all(q) ==
  LET attempt == q.attempt
      o == q.outcomes[attempt + 1]
  IN IF o = "rows"
       THEN [q EXCEPT !.status = "returned", !.attempt = attempt + 1]
     ELSE IF attempt < MaxRetries - 1
       THEN [q EXCEPT !.attempt = attempt + 1,
                      !.slept = Append(@, q.retry_delay),
                      !.retry_delay = 2 * @]
     ELSE [q EXCEPT !.status = "raised", !.attempt = attempt + 1,
                    !.error = o]

\* one iteration of `for attempt in range(max_retries)`: try session.run,
\* return the rows; on a transient error sleep and double the delay, or
\* re-raise on the last attempt; re-raise any other exception
run_query_attempt(q) ==
  LET attempt == q.attempt
      o == q.outcomes[attempt + 1]
  IN IF o = "rows"
       THEN [q EXCEPT !.status = "returned", !.attempt = attempt + 1]
     ELSE IF o \in TransientErrors /\ attempt < MaxRetries - 1
       THEN [q EXCEPT !.attempt = attempt + 1,
                      !.slept = Append(@, q.retry_delay),
                      !.retry_delay = 2 * @]
     ELSE [q EXCEPT !.status = "raised", !.attempt = attempt + 1,
                    !.error = o]

InitQuery ==
  /\ chroma = {}
  /\ articles = {}
  /\ similar = {}
  /\ nextId = 1
  /\ topics = <<>>
  /\ cfg = [min_quality_score |-> 70, max_regenerations |-> 2]
  /\ idx = 1
  /\ results = <<>>
  /\ generated = 0
  /\ skipped = 0
  /\ pc = "idle"
  /\ state = InitialState("A")
  /\ h = NoH
  /\ log = <<>>
  /\ upd = NoUpd
  /\ ev = NoEv
  /\ reads = {}
  /\ ratings = {}
  /\ rec = NoRec
  /\ div = NoDiv
  /\ affinity = {}
  /\ bookmarks = {}
  /\ act = NoAct
  /\ \E outcomes \in [1..MaxRetries -> AttemptOutcomes] :
       rq = [status |-> "running", outcomes |-> outcomes, attempt |-> 0,
             slept |-> <<>>, retry_delay |-> InitialRetryDelay,
             error |-> "none"]
  /\ procs = NoProcs

\* the next attempt of the running run_query call
QueryAttempt ==
  /\ rq.status = "running"
  /\ rq.attempt < MaxRetries
  /\ rq' = run_query_attempt(rq)
  /\ UNCHANGED <<storeVars, batchVars, pc, state, h, log, upd, ev, reads,
                 ratings, rec, div, affinity, bookmarks, act, procs>>

NextQuery == QueryAttempt

SpecQuery == InitQuery /\ [][NextQuery]_vars

\* the attempts made so far, all but the last of which failed transiently
EarlierAttemptsTransient ==
  \A j \in 1..(rq.attempt - 1) : rq.outcomes[j] \in TransientErrors

\* C24: run_query attempts a query at most 3 times: it returns the rows of
\* the first successful attempt; it retries only after ServiceUnavailable,
\* SessionExpired or TransientError, waiting 1s and then 2s; after a third
\* transient failure it re-raises that error; any other exception is
\* re-raised on the attempt where it occurs, with no retry.
C24_RunQueryRetries ==
  rq.status # "none" =>
    /\ rq.attempt <= 3
    /\ EarlierAttemptsTransient
    /\ rq.slept \in {<<>>, <<1>>, <<1, 2>>}
    /\ rq.status = "running" =>
         /\ rq.attempt < 3
         /\ Len(rq.slept) = rq.attempt
         /\ rq.attempt > 0 => rq.outcomes[rq.attempt] \in TransientErrors
    /\ rq.status = "returned" =>
         /\ rq.outcomes[rq.attempt] = "rows"
         /\ Len(rq.slept) = rq.attempt - 1
    /\ rq.status = "raised" =>
         /\ rq.error = rq.outcomes[rq.attempt]
         /\ rq.error # "rows"
         /\ Len(rq.slept) = rq.attempt - 1
         /\ rq.error \in TransientErrors => rq.attempt = 3

\* the third transient failure was re-raised after waits of 1s and 2s
C24_RaisedAfterThirdFailure ==
  /\ rq.status = "raised"
  /\ rq.attempt = 3
  /\ rq.error \in TransientErrors
  /\ rq.slept = <<1, 2>>

\* ------------------------------------------------------------------------
\* Claims about what recommend returns to a reader (SpecRec)
\* ------------------------------------------------------------------------
\* C25: for a user with at least one read, recommend never returns an
\* article that this user has already read, on any path it can take
\* (personalized ranking or the cold-start fallback).
C25_ReadArticlesNotReturned ==
  (Recommended /\ HasHistory /\ rec.path # "raised") =>
    \A i \in 1..Len(rec.result) :
      rec.result[i].article_id
        \notin read_ids(reads, articles, rec.call.user)

\* the cold-start fallback returned an article the user has read
C25_FallbackReturnedReadArticle ==
  /\ rec.path = "fallback"
  /\ HasHistory
  /\ \E i \in 1..Len(rec.result) :
       rec.result[i].article_id \in read_ids(reads, articles, rec.call.user)

\* b is a candidate of the last call gathered from the similarity source
SimilaritySourced(b) ==
  \E i \in 1..Len(rec.scored) :
    /\ rec.scored[i].article_id = b
    /\ "similarity" \in SeqToSet(rec.scored[i].sources)

\* C26: for any two articles persisted through save, in either order, whose
\* similarity is >= similarity_threshold: if a user has read one of them and
\* not the other, the other is gathered as a similarity-sourced candidate,
\* i.e. a SIMILAR_TO edge exists out of the read article whichever article
\* was saved first.
C26_SimilarGatheredEitherOrder ==
  (Recommended /\ HasHistory) =>
    \A a \in read_ids(reads, articles, rec.call.user) :
      \A b \in articles \ read_ids(reads, articles, rec.call.user) :
        Cosine(chroma, a, b) >= SimilarityThreshold =>
          /\ \E e \in similar : e.a1 = a /\ e.a2 = b
          /\ rec.path \in {"personalized", "raised"} => SimilaritySourced(b)

\* the user read the article saved first; the article saved second is
\* linked to it, is a candidate, and was not gathered through similarity
C26_EarlierReadLaterNotGathered ==
  /\ rec.path = "personalized"
  /\ \E a \in read_ids(reads, articles, rec.call.user) :
       \E b \in articles \ read_ids(reads, articles, rec.call.user) :
         /\ a < b
         /\ \E e \in similar : e.a1 = b /\ e.a2 = a
         /\ ~\E e \in similar : e.a1 = a /\ e.a2 = b
         /\ \E i \in 1..Len(rec.scored) : rec.scored[i].article_id = b
         /\ ~SimilaritySourced(b)

\* ------------------------------------------------------------------------
\* Claims about duplicate detection across batches (Spec)
\* ------------------------------------------------------------------------
\* StorageService.is_topic_duplicate(topic) on collection C, query answered
IsDuplicateIn(C, topic) ==
  is_topic_duplicate(C, topic, DuplicateThreshold, FALSE)

\* C27: a save that fails because the graph write fails after the vector
\* write leaves duplicate detection unchanged: is_duplicate(topic) returns
\* the same answer after the failed save as before it, so the same topic
\* submitted in a later batch is generated and stored, not skipped.
C27_FailedSaveKeepsDuplicateCheck ==
  [][(chroma' # chroma /\ articles' = articles) =>
       \A t \in TopicNames : IsDuplicateIn(chroma', t) = IsDuplicateIn(chroma, t)
    ]_vars

\* a topic was skipped as a duplicate while the graph store has no article
C27_SkippedAfterFailedSave ==
  /\ articles = {}
  /\ chroma # {}
  /\ \E i \in 1..Len(log) :
       /\ log[i].how = "duplicate"
       /\ IsDuplicateIn(chroma, log[i].topic)

\* C28: after any sequence of generate_batch calls (including a batch that
\* repeats a topic and batches during which the duplicate check's query
\* fails), at most one item is stored per topic: no item is stored for a
\* topic while an item the duplicate check would match is already persisted.
C28_NoSecondItemForTopic ==
  [][\A d \in chroma' \ chroma : ~IsDuplicateIn(chroma, d.topic)]_vars

\* two articles of the same topic are stored in both stores
C28_TwoItemsForOneTopic ==
  \E a \in chroma : \E b \in chroma :
    /\ a.id # b.id
    /\ a.topic = b.topic
    /\ {a.id, b.id} \subseteq articles

\* ------------------------------------------------------------------------
\* Two save_article calls running concurrently, every store operation
\* succeeding (SpecConc).  Each store operation is one step.
\* ------------------------------------------------------------------------
Savers == {1, 2}

\* variant of the step order in which the graph write comes last
save_next_graph_last(at, more) ==
  IF at = "chroma" THEN "get"
  ELSE IF at = "neo4j" THEN "done"
  ELSE IF more THEN "edge" ELSE "neo4j"

\* the step of save_article that follows step `at`: 1) chroma add_article,
\* 2) neo4j add_article, 3) collection.get, then one _create_similarity_edge
\* per target while there are more
save_next(at, more) ==
  IF at = "chroma" THEN "neo4j"
  ELSE IF at = "neo4j" THEN "get"
  ELSE IF more THEN "edge" ELSE "done"

InitConc ==
  /\ chroma = {}
  /\ articles = {}
  /\ similar = {}
  /\ nextId = 3
  /\ topics = <<>>
  /\ cfg = [min_quality_score |-> 70, max_regenerations |-> 2]
  /\ idx = 1
  /\ results = <<>>
  /\ generated = 0
  /\ skipped = 0
  /\ pc = "idle"
  /\ state = InitialState("A")
  /\ h = NoH
  /\ log = <<>>
  /\ upd = NoUpd
  /\ ev = NoEv
  /\ reads = {}
  /\ ratings = {}
  /\ rec = NoRec
  /\ div = NoDiv
  /\ affinity = {}
  /\ bookmarks = {}
  /\ act = NoAct
  /\ rq = NoQuery
  /\ \E t \in [Savers -> TopicNames] :
       procs = [p \in Savers |->
                  [at |-> "chroma", id |-> p, topic |-> t[p], seen |-> {},
                   todo |-> <<>>]]

\* 1) chroma_manager.add_article(..., article_id=article_id)
SaveWriteVector(p) ==
  /\ procs # NoProcs
  /\ procs[p].at = "chroma"
  /\ chroma' = chroma \cup {[id |-> procs[p].id, topic |-> procs[p].topic]}
  /\ procs' = [procs EXCEPT ![p].at = save_next("chroma", FALSE)]
  /\ UNCHANGED <<articles, similar, nextId, batchVars, pc, state, h, log,
                 upd, ev, reads, ratings, rec, div, affinity, bookmarks, act,
                 rq>>

\* 2) self.neo4j.add_article(article_id=article_id, ...)
SaveWriteGraph(p) ==
  /\ procs # NoProcs
  /\ procs[p].at = "neo4j"
  /\ articles' = articles \cup {procs[p].id}
  /\ procs' = [procs EXCEPT ![p].at = save_next("neo4j", FALSE)]
  /\ UNCHANGED <<chroma, similar, nextId, batchVars, pc, state, h, log, upd,
                 ev, reads, ratings, rec, div, affinity, bookmarks, act, rq>>

\* 3) update_similarities_for_new_articles([article_id]): collection.get and
\* the targets computed from what it returned
SaveGetEmbeddings(p) ==
  /\ procs # NoProcs
  /\ procs[p].at = "get"
  /\ LET todo == IF procs[p].id \in Ids(chroma)
                   THEN Targets(chroma, procs[p].id) ELSE <<>>
     IN procs' = [procs EXCEPT ![p].seen = chroma, ![p].todo = todo,
                               ![p].at = save_next("get", todo # <<>>)]
  /\ UNCHANGED <<storeVars, batchVars, pc, state, h, log, upd, ev, reads,
                 ratings, rec, div, affinity, bookmarks, act, rq>>

\* self._create_similarity_edge(new_id, other_id, float(sim)) for the next
\* target
SaveCreateEdge(p) ==
  /\ procs # NoProcs
  /\ procs[p].at = "edge"
  /\ LET other == Head(procs[p].todo)
     IN similar' = create_similarity_edge(
                     similar, articles, procs[p].id, other,
                     Cosine(procs[p].seen, procs[p].id, other))
  /\ procs' = [procs EXCEPT ![p].todo = Tail(@),
                            ![p].at = save_next("edge", Tail(procs[p].todo) # <<>>)]
  /\ UNCHANGED <<chroma, articles, nextId, batchVars, pc, state, h, log, upd,
                 ev, reads, ratings, rec, div, affinity, bookmarks, act, rq>>

NextConc ==
  \/ \E p \in Savers : SaveWriteVector(p)
  \/ \E p \in Savers : SaveWriteGraph(p)
  \/ \E p \in Savers : SaveGetEmbeddings(p)
  \/ \E p \in Savers : SaveCreateEdge(p)

SpecConc == InitConc /\ [][NextConc]_vars

BothSavesReturned ==
  procs # NoProcs /\ \A p \in Savers : procs[p].at = "done"

SavedItemsSimilar ==
  procs # NoProcs
    /\ TopicSim(procs[1].topic, procs[2].topic) >= SimilarityThreshold

\* C29: under every interleaving of two concurrent save calls for two items
\* whose similarity is >= similarity_threshold, in which all store
\* operations succeed, at least one SIMILAR_TO edge links the two items once
\* both saves have returned.
C29_ConcurrentSavesLinked ==
  (BothSavesReturned /\ SavedItemsSimilar) => HasEdge(1, 2)

\* both saves returned; the first save's edge found no node for the second
\* article, and only the second save's edge exists
C29_OnlyOneDirectionLinked ==
  /\ BothSavesReturned
  /\ SavedItemsSimilar
  /\ procs[1].seen = chroma
  /\ Links(similar) = {<<2, 1>>}

\* C30: whenever STORE is entered for a topic, the summary about to be
\* stored is either empty or was derived from the body about to be stored;
\* it is never a summary derived from an earlier body that a regeneration
\* has since replaced.
C30_StoredSummaryDerivedFromBody ==
  pc = "store" => state.vocab_summary \in {EmptySummary, state.article}

\* the store node is about to run after a regeneration whose call_llm
\* succeeded and whose generate_vocab_summary raised: the body is the
\* regenerated one, the summary is the one derived from the replaced body
C30_StaleSummaryAtStore ==
  /\ pc = "store"
  /\ state.regeneration_count >= 1
  /\ state.article = state.regeneration_count + 1
  /\ state.vocab_summary # EmptySummary
  /\ state.vocab_summary < state.article

====
